---- MODULE Spec2Model ----
(***************************************************************************)
(* A model of src/base/base.js of hyperjs: the trial store (class Trials), *)
(* its validation of trial documents, its derived view and its queries.    *)
(*                                                                         *)
(* JavaScript values are modelled as follows.  A primitive is a record     *)
(* with a type tag t (undefined, null, number, string, boolean); an array  *)
(* is a record tagged "array" holding its items; a plain object is a       *)
(* function from its own property names to values (no property of the      *)
(* model is named t).  Reading a property an object does not own, or any   *)
(* property of a primitive, gives undefined, as in JavaScript.             *)
(***************************************************************************)
EXTENDS Integers, Sequences, FiniteSets, TLC

VARIABLES
    expKey,         \* this.expKey
    ids,            \* this.ids
    dynamicTrials,  \* this.dynamicTrials, the authoritative list
    trials,         \* this.trials, the derived view
    op,             \* the method the last step called
    arg,            \* the arguments it was called with, as an array
    err,            \* the message of the Error it threw, NoError if it returned
    rval,           \* the value it returned, Undefined if it threw
    reserved,       \* caller's side: how many times each id was handed out by
                    \* newTrialIds and not yet put in a document
    prevIds,        \* caller's side: what the newTrialIds call before the last returned
    lastIds,        \* caller's side: what the last newTrialIds call returned
    refreshedBetween, \* refresh() ran under a non-null key between those two calls
    refreshedSince, \* refresh() ran under a non-null key since the last call
    fn,             \* this.fn of the Domain, given by how the objective function settles
    rngs,           \* the RandomState objects created so far: the state of each
    calls           \* the capability invocations of the last eval, in the order made

vars == <<expKey, ids, dynamicTrials, trials, op, arg, err, rval,
          reserved, prevIds, lastIds, refreshedBetween, refreshedSince,
          fn, rngs, calls>>

store == <<expKey, ids, dynamicTrials, trials>>

caller == <<reserved, prevIds, lastIds, refreshedBetween, refreshedSince>>

\* the Domain and the BaseSpace with its random states, which no method of
\* Trials reads or writes
others == <<fn, rngs, calls>>

----------------------------------------------------------------------------
(* Bounds of the model *)

\* longest authoritative list explored
MaxTrials == 2

\* largest total that newTrialIds may have handed out before it is disabled
MaxIds == 2

\* longest derived view drawn when a query is checked as a function of the view
MaxView == 3

----------------------------------------------------------------------------
(* JavaScript values *)

Undefined == [t |-> "undefined"]

Null == [t |-> "null"]

Num(n) == [t |-> "number", v |-> n]

Str(s) == [t |-> "string", v |-> s]

Bool(b) == [t |-> "boolean", v |-> b]

Arr(s) == [t |-> "array", items |-> s]

IsPrimitiveOrArray(x) == "t" \in DOMAIN x

IsArray(x) == IsPrimitiveOrArray(x) /\ x.t = "array"

IsNum(x) == IsPrimitiveOrArray(x) /\ x.t = "number"

\* o[k]
Get(o, k) == IF ~IsPrimitiveOrArray(o) /\ k \in DOMAIN o THEN o[k] ELSE Undefined

\* Object.keys(o) of a plain object
ObjectKeys(o) == DOMAIN o

\* the object o without its property k
Without(o, k) == [f \in DOMAIN o \ {k} |-> o[f]]

\* a < b and a > b on numbers; a comparison with undefined is false
Less(a, b) == IsNum(a) /\ IsNum(b) /\ a.v < b.v

Greater(a, b) == IsNum(a) /\ IsNum(b) /\ a.v > b.v

\* indexOf(x) >= 0 on a sequence
Includes(s, x) == \E i \in 1..Len(s) : s[i] = x

----------------------------------------------------------------------------
(* Constants of base.js *)

STATUS_NEW == "new"

STATUS_RUNNING == "running"

STATUS_SUSPENDED == "suspended"

STATUS_OK == "ok"

STATUS_FAIL == "fail"

STATUS_STRINGS == <<"new", "running", "suspended", "ok", "fail">>

JOB_STATE_NEW == 0

JOB_STATE_RUNNING == 1

JOB_STATE_DONE == 2

JOB_STATE_ERROR == 3

JOB_STATES == <<JOB_STATE_NEW, JOB_STATE_RUNNING, JOB_STATE_DONE, JOB_STATE_ERROR>>

TRIAL_KEYS == <<"id", "result", "args", "state", "book_time", "refresh_time">>

\* range(start, end): the numbers start, start+1, ..., end-1
range(start, end) ==
    [k \in 1..(IF end > start THEN end - start ELSE 0) |-> Num(k - 1 + start)]

----------------------------------------------------------------------------
(* Trials: validation *)

NoError == "no error"

NoKey == "undefined"

\* MissingTrialKey reporting the last absent key instead of the first
MissingTrialKeyLast(trial) ==
    LET missing == {i \in 1..Len(TRIAL_KEYS) : Get(trial, TRIAL_KEYS[i]) = Undefined}
    IN  IF missing = {} THEN NoKey
        ELSE TRIAL_KEYS[CHOOSE i \in missing : \A j \in missing : i >= j]

\* TRIAL_KEYS.find(key => trial[key] === undefined)
MissingTrialKey(trial) ==
    LET missing == {i \in 1..Len(TRIAL_KEYS) : Get(trial, TRIAL_KEYS[i]) = Undefined}
    IN  IF missing = {} THEN NoKey
        ELSE TRIAL_KEYS[CHOOSE i \in missing : \A j \in missing : i <= j]

\* AssertValidTrial without the check of the experiment key
AssertValidTrialAnyKey(trial, key) ==
    LET missingTrialKey == MissingTrialKey(trial)
    IN  IF Cardinality(ObjectKeys(trial)) <= 0 THEN "trial should be an object"
        ELSE IF missingTrialKey # NoKey THEN "trial missing key " \o missingTrialKey
        ELSE NoError

\* assertValidTrial(trial) under store key `key`: the Error it throws, or
\* NoError when it returns the trial.  The message of line 108 is kept
\* without the two keys it quotes
AssertValidTrial(trial, key) ==
    LET missingTrialKey == MissingTrialKey(trial)
    IN  IF Cardinality(ObjectKeys(trial)) <= 0 THEN "trial should be an object"
        ELSE IF missingTrialKey # NoKey THEN "trial missing key " \o missingTrialKey
        ELSE IF Get(trial, "expKey") # key THEN "wrong trial expKey"
        ELSE NoError

\* trials.map(trial => this.assertValidTrial(trial)): the Error of the first
\* trial that fails, NoError when every trial passes
AssertValidTrials(docs, key) ==
    LET thrown == [i \in 1..Len(docs) |-> AssertValidTrial(docs[i], key)]
        bad    == {i \in 1..Len(docs) : thrown[i] # NoError}
    IN  IF bad = {} THEN NoError
        ELSE thrown[CHOOSE i \in bad : \A j \in bad : i <= j]

----------------------------------------------------------------------------
(* Trials: the operations as functions of the store's fields *)

\* RefreshTrials keeping the records of every experiment
RefreshTrialsAnyKey(dyn, key) ==
    SelectSeq(dyn, LAMBDA trial : Get(trial, "state") # Num(JOB_STATE_ERROR))

\* refresh(): the new derived view
RefreshTrials(dyn, key) ==
    IF key = Null
    THEN SelectSeq(dyn, LAMBDA trial : Get(trial, "state") # Num(JOB_STATE_ERROR))
    ELSE SelectSeq(dyn, LAMBDA trial : /\ Get(trial, "state") # Num(JOB_STATE_ERROR)
                                       /\ Get(trial, "expKey") = key)

\* RefreshIds clearing the ids whatever the key of the store
RefreshIdsAlways(idsNow, key) == <<>>

\* RefreshIds keeping the ids whatever the key of the store
RefreshIdsNever(idsNow, key) == idsNow

\* refresh(): the new this.ids
RefreshIds(idsNow, key) == IF key = Null THEN idsNow ELSE <<>>

\* InternalInsertTrialDocs putting the documents before the records held
InternalInsertTrialDocsFirst(dyn, docs) == docs \o dyn

\* internalInsertTrialDocs(docs): the new authoritative list ...
InternalInsertTrialDocs(dyn, docs) == dyn \o docs

\* ... and what it returns, docs.map(doc => doc.id)
InsertedIds(docs) == [i \in 1..Len(docs) |-> Get(docs[i], "id")]

\* InsertTrialDocsList validating and appending one trial at a time, so that
\* the trials before the first malformed one are kept
InsertTrialDocsListEager(dyn, docs, key) ==
    LET bad   == {i \in 1..Len(docs) : AssertValidTrial(docs[i], key) # NoError}
        first == IF bad = {} THEN Len(docs) + 1
                 ELSE CHOOSE i \in bad : \A j \in bad : i <= j
    IN  dyn \o SubSeq(docs, 1, first - 1)

\* insertTrialDocs(trials): the authoritative list it leaves.  Every trial is
\* validated (line 125) before internalInsertTrialDocs runs (line 126), so a
\* throw leaves the list as it was
InsertTrialDocsList(dyn, docs, key) ==
    IF AssertValidTrials(docs, key) = NoError
    THEN InternalInsertTrialDocs(dyn, docs)
    ELSE dyn

\* newTrialIds(N): what it returns
NewTrialIdsRval(idsNow, N) ==
    LET aa == Len(idsNow)
    IN  range(aa, aa + N)

\* element i (from 1) of a JavaScript array given as a sequence: undefined
\* past its end
At(s, i) == IF i \in 1..Len(s) THEN s[i] ELSE Undefined

\* NewTrialDocs giving every document the null experiment key
NewTrialDocsNullKey(idList, results, args, key) ==
    [i \in 1..Len(idList) |->
        [state        |-> Num(JOB_STATE_NEW),
         id           |-> idList[i],
         result       |-> At(results, i),
         args         |-> At(args, i),
         expKey       |-> Null,
         book_time    |-> Null,
         refresh_time |-> Null]]

\* newTrialDocs(ids, results, args) under store key `key`
NewTrialDocs(idList, results, args, key) ==
    [i \in 1..Len(idList) |->
        [state        |-> Num(JOB_STATE_NEW),
         id           |-> idList[i],
         result       |-> At(results, i),
         args         |-> At(args, i),
         expKey       |-> key,
         book_time    |-> Null,
         refresh_time |-> Null]]

\* countByStateSynced(arg, trials) over the list vTrials
CountByStateSyncedOf(a, vTrials) ==
    LET vArg  == IF IsArray(a) THEN a.items ELSE <<a>>
        queue == SelectSeq(vTrials, LAMBDA doc : Includes(vArg, Get(doc, "state")))
    IN  Num(Len(queue))

\* countByStateUnsynced(arg): line 167 maps each trial to the boolean
\* trial.expKey === this.expKey when the store has a key
ExpTrials(dyn, key) ==
    IF key # Null
    THEN [i \in 1..Len(dyn) |-> Bool(Get(dyn[i], "expKey") = key)]
    ELSE dyn

CountByStateUnsyncedOf(a, dyn, key) == CountByStateSyncedOf(a, ExpTrials(dyn, key))

\* DefaultCompare taking an equal loss for a better one
DefaultCompareOrEqual(a, b) ==
    IF Get(a, "loss") # Undefined
    THEN Less(Get(a, "loss"), Get(b, "loss")) \/ Get(a, "loss") = Get(b, "loss")
    ELSE Greater(Get(a, "accuracy"), Get(b, "accuracy"))

\* the default comparator of bestTrial (lines 175-176)
DefaultCompare(a, b) ==
    IF Get(a, "loss") # Undefined
    THEN Less(Get(a, "loss"), Get(b, "loss"))
    ELSE Greater(Get(a, "accuracy"), Get(b, "accuracy"))

\* the comparator argmax passes (lines 192-193)
ArgmaxCompare(a, b) ==
    IF Get(a, "loss") # Undefined
    THEN Greater(Get(a, "loss"), Get(b, "loss"))
    ELSE Greater(Get(a, "accuracy"), Get(b, "accuracy"))

Compare(compare, a, b) ==
    IF compare = "argmax" THEN ArgmaxCompare(a, b) ELSE DefaultCompare(a, b)

RECURSIVE BestFrom(_, _, _, _)

\* this.trials.forEach(...) of bestTrial from element i on, best being the
\* best so far
BestFrom(view, compare, i, best) ==
    IF i > Len(view) THEN best
    ELSE BestFrom(view, compare, i + 1,
                  IF /\ Get(Get(view[i], "result"), "status") = Str(STATUS_OK)
                     /\ Compare(compare, Get(view[i], "result"), Get(best, "result"))
                  THEN view[i]
                  ELSE best)

\* bestTrial(compare) over the derived view
BestTrialOf(view, compare) == BestFrom(view, compare, 1, At(view, 1))

\* argmin and argmax
ArgOf(best) == IF best # Undefined THEN Get(best, "args") ELSE Undefined

\* the getter results: this.trials.map(trial => trial.result)
Results(view) == [i \in 1..Len(view) |-> Get(view[i], "result")]

\* the values JavaScript takes for false in a || b
Falsy(x) == x \in {Undefined, Null, Num(0), Bool(FALSE), Str("")}

\* a || b
OrElse(a, b) == IF Falsy(a) THEN b ELSE a

\* losses()
LossesOf(view) ==
    [i \in 1..Len(view) |->
        OrElse(Get(Results(view)[i], "loss"), Get(Results(view)[i], "accuracy"))]

\* statuses()
StatusesOf(view) == [i \in 1..Len(view) |-> Get(Results(view)[i], "status")]

----------------------------------------------------------------------------
(* Trials: the operations as steps *)

Called(name, args) == op' = name /\ arg' = Arr(args)

Returns(value) == err' = NoError /\ rval' = value

Throws(message) == err' = message /\ rval' = Undefined

\* new Trials(expKey, refresh)
Constructed(key) ==
    /\ ids = <<>>
    /\ dynamicTrials = <<>>
    /\ expKey = key
    /\ trials = RefreshTrials(<<>>, key)
    /\ op = "constructor" /\ arg = Arr(<<key>>) /\ err = NoError /\ rval = Undefined

Refresh ==
    /\ trials' = RefreshTrials(dynamicTrials, expKey)
    /\ ids' = RefreshIds(ids, expKey)
    /\ Called("refresh", <<>>) /\ Returns(Undefined)
    /\ UNCHANGED <<expKey, dynamicTrials>>

\* InsertTrialDoc bringing the derived view up to date after the append
InsertTrialDocRefreshing(trial) ==
    LET thrown == AssertValidTrial(trial, expKey)
    IN  /\ thrown = NoError => Len(dynamicTrials) < MaxTrials
        /\ Called("insertTrialDoc", <<trial>>)
        /\ IF thrown = NoError
           THEN /\ dynamicTrials' = InternalInsertTrialDocs(dynamicTrials, <<trial>>)
                /\ trials' = RefreshTrials(dynamicTrials', expKey)
                /\ Returns(InsertedIds(<<trial>>)[1])
           ELSE /\ dynamicTrials' = dynamicTrials
                /\ trials' = trials
                /\ Throws(thrown)
        /\ UNCHANGED <<expKey, ids>>

InsertTrialDoc(trial) ==
    LET thrown == AssertValidTrial(trial, expKey)
    IN  /\ thrown = NoError => Len(dynamicTrials) < MaxTrials
        /\ Called("insertTrialDoc", <<trial>>)
        /\ IF thrown = NoError
           THEN /\ dynamicTrials' = InternalInsertTrialDocs(dynamicTrials, <<trial>>)
                /\ Returns(InsertedIds(<<trial>>)[1])
           ELSE /\ dynamicTrials' = dynamicTrials
                /\ Throws(thrown)
        /\ UNCHANGED <<expKey, ids, trials>>

InsertTrialDocs(docs) ==
    LET thrown == AssertValidTrials(docs, expKey)
        list   == InsertTrialDocsList(dynamicTrials, docs, expKey)
    IN  /\ Len(list) <= MaxTrials
        /\ Called("insertTrialDocs", <<Arr(docs)>>)
        /\ dynamicTrials' = list
        /\ IF thrown = NoError THEN Returns(Arr(InsertedIds(docs))) ELSE Throws(thrown)
        /\ UNCHANGED <<expKey, ids, trials>>

NewTrialIds(N) ==
    /\ Len(ids) + N <= MaxIds
    /\ ids' = ids \o NewTrialIdsRval(ids, N)
    /\ Called("newTrialIds", <<Num(N)>>) /\ Returns(Arr(NewTrialIdsRval(ids, N)))
    /\ UNCHANGED <<expKey, dynamicTrials, trials>>

NewTrialDocsCall(idList, results, args) ==
    /\ Called("newTrialDocs", <<Arr(idList), Arr(results), Arr(args)>>)
    /\ Returns(Arr(NewTrialDocs(idList, results, args, expKey)))
    /\ UNCHANGED store

\* DeleteAll without its call of refresh()
DeleteAllUnrefreshed ==
    /\ dynamicTrials' = <<>>
    /\ Called("deleteAll", <<>>) /\ Returns(Undefined)
    /\ UNCHANGED <<expKey, ids, trials>>

DeleteAll ==
    /\ dynamicTrials' = <<>>
    /\ trials' = RefreshTrials(<<>>, expKey)
    /\ ids' = RefreshIds(ids, expKey)
    /\ Called("deleteAll", <<>>) /\ Returns(Undefined)
    /\ UNCHANGED expKey

CountByStateSynced(a) ==
    /\ Called("countByStateSynced", <<a>>) /\ Returns(CountByStateSyncedOf(a, trials))
    /\ UNCHANGED store

CountByStateUnsynced(a) ==
    /\ Called("countByStateUnsynced", <<a>>)
    /\ Returns(CountByStateUnsyncedOf(a, dynamicTrials, expKey))
    /\ UNCHANGED store

\* bestTrial() and bestTrial(compare), the comparator given by its name
BestTrial(compare) ==
    /\ Called("bestTrial", <<Str(compare)>>)
    /\ Returns(BestTrialOf(trials, compare))
    /\ UNCHANGED store

Argmin ==
    /\ Called("argmin", <<>>)
    /\ Returns(ArgOf(BestTrialOf(trials, "default")))
    /\ UNCHANGED store

Argmax ==
    /\ Called("argmax", <<>>)
    /\ Returns(ArgOf(BestTrialOf(trials, "argmax")))
    /\ UNCHANGED store

Losses ==
    /\ Called("losses", <<>>)
    /\ Returns(Arr(LossesOf(trials)))
    /\ UNCHANGED store

Statuses ==
    /\ Called("statuses", <<>>)
    /\ Returns(Arr(StatusesOf(trials)))
    /\ UNCHANGED store

----------------------------------------------------------------------------
(* The inputs the callers of the model draw from *)

\* Domain.newResult(): the placeholder result of a trial not yet evaluated
NewResult == [status |-> Str(STATUS_NEW)]

\* the experiment keys in use; a store is built with null or "A"
StoreKeys == {Null, Str("A")}

DocIds == {0, 1}

\* the states documents are inserted with
DocStates == {JOB_STATE_NEW, JOB_STATE_ERROR}

ArgsOf(i) == [x |-> Num(i)]

\* a complete trial document
MkDoc(i, result, state, key) ==
    [id           |-> Num(i),
     result       |-> result,
     args         |-> ArgsOf(i),
     state        |-> Num(state),
     book_time    |-> Null,
     refresh_time |-> Null,
     expKey       |-> key]

\* documents that pass validation in a store of key `key`
ValidDocs(key) ==
    {MkDoc(i, NewResult, s, key) : i \in DocIds, s \in DocStates}

\* documents that do not: one required key absent, two absent, a key present
\* with the value undefined, no key at all, the expKey absent, the expKey of
\* another experiment
InvalidDocs(key) ==
    LET base == MkDoc(0, NewResult, JOB_STATE_NEW, key)
    IN  {Without(base, TRIAL_KEYS[i]) : i \in 1..Len(TRIAL_KEYS)}
        \cup {Without(Without(base, "args"), "result"),
              [base EXCEPT !["state"] = Undefined],
              [k \in {} |-> Undefined],
              Without(base, "expKey"),
              MkDoc(0, NewResult, JOB_STATE_NEW, Str("B"))}

DocInputs(key) == ValidDocs(key) \cup InvalidDocs(key)

\* the documents batches are made of, and the batches: up to two documents
BatchDocs(key) ==
    LET base == MkDoc(0, NewResult, JOB_STATE_NEW, key)
    IN  {base, MkDoc(1, NewResult, JOB_STATE_ERROR, key), Without(base, "result")}

Batches(key) ==
    {<<>>} \cup {<<a>> : a \in BatchDocs(key)}
           \cup {<<a, b>> : a \in BatchDocs(key), b \in BatchDocs(key)}

\* the arguments of countByState: one state, or an array of states
CountArgs ==
    {Num(JOB_STATE_NEW), Arr(<<Num(JOB_STATE_NEW)>>), Num(JOB_STATE_ERROR),
     Arr(<<Num(JOB_STATE_NEW), Num(JOB_STATE_ERROR)>>)}

\* the arguments of newTrialDocs: ids with results and args for each, or
\* with no results at all
BuildArgs ==
    LET idLists == {<<Num(0)>>, <<Num(0), Num(1)>>}
    IN  {<<l, [i \in 1..Len(l) |-> NewResult], [i \in 1..Len(l) |-> ArgsOf(l[i].v)]>> :
            l \in idLists}
        \cup {<<<<Num(0)>>, <<>>, <<ArgsOf(0)>>>>}

----------------------------------------------------------------------------
(* The store under arbitrary callers *)

\* no Domain is evaluated and no BaseSpace is used beside the store
OthersInit ==
    /\ fn = [settles |-> "never"]
    /\ rngs = <<>>
    /\ calls = <<>>

CallerInit ==
    /\ reserved = [i \in 0..(MaxIds - 1) |-> 0]
    /\ prevIds = Undefined
    /\ lastIds = Undefined
    /\ refreshedBetween = FALSE
    /\ refreshedSince = FALSE

Init == (\E key \in StoreKeys : Constructed(key)) /\ CallerInit /\ OthersInit

DoRefresh == Refresh /\ UNCHANGED <<caller, others>>

DoInsertTrialDoc == (\E trial \in DocInputs(expKey) : InsertTrialDoc(trial)) /\ UNCHANGED <<caller, others>>

DoInsertTrialDocs == (\E docs \in Batches(expKey) : InsertTrialDocs(docs)) /\ UNCHANGED <<caller, others>>

DoNewTrialIds == (\E N \in 0..MaxIds : NewTrialIds(N)) /\ UNCHANGED <<caller, others>>

DoNewTrialDocs == (\E b \in BuildArgs : NewTrialDocsCall(b[1], b[2], b[3])) /\ UNCHANGED <<caller, others>>

\* the documents that newTrialDocs has just returned are inserted
DoInsertBuiltDocs ==
    /\ op = "newTrialDocs"
    /\ InsertTrialDocs(rval.items)
    /\ UNCHANGED <<caller, others>>

DoDeleteAll == DeleteAll /\ UNCHANGED <<caller, others>>

DoCountByStateSynced == (\E a \in CountArgs : CountByStateSynced(a)) /\ UNCHANGED <<caller, others>>

DoCountByStateUnsynced == (\E a \in CountArgs : CountByStateUnsynced(a)) /\ UNCHANGED <<caller, others>>

Next ==
    \/ DoRefresh
    \/ DoInsertTrialDoc
    \/ DoInsertTrialDocs
    \/ DoNewTrialIds
    \/ DoNewTrialDocs
    \/ DoInsertBuiltDocs
    \/ DoDeleteAll
    \/ DoCountByStateSynced
    \/ DoCountByStateUnsynced

Spec == Init /\ [][Next]_vars

----------------------------------------------------------------------------
(* The store under a caller that takes every id from newTrialIds, builds its
   documents with newTrialDocs and puts each id it was given in at most one
   document *)

RECURSIVE HeldUpTo(_, _)

HeldUpTo(held, i) == IF i < 0 THEN 0 ELSE held[i] + HeldUpTo(held, i - 1)

\* how many ids the caller holds
Outstanding == HeldUpTo(reserved, MaxIds - 1)

\* the id lists the caller may build documents for: one or two of the ids it
\* holds, each used as often as it holds it at most
HeldIdLists ==
    LET held == {i \in DOMAIN reserved : reserved[i] >= 1}
    IN  {<<Num(i)>> : i \in held}
        \cup {l \in {<<Num(i), Num(j)>> : i \in held, j \in held} :
                 l[1] # l[2] \/ reserved[l[1].v] >= 2}

Uses(idList, i) == Cardinality({k \in 1..Len(idList) : idList[k] = Num(i)})

RefreshedUnderKey == expKey # Null

IdsNewTrialIds ==
    \E N \in 0..MaxIds :
        /\ Outstanding + N <= MaxIds
        /\ NewTrialIds(N)
        /\ reserved' = [i \in DOMAIN reserved |->
                           reserved[i] + Uses(NewTrialIdsRval(ids, N), i)]
        /\ prevIds' = lastIds
        /\ lastIds' = Arr(NewTrialIdsRval(ids, N))
        /\ refreshedBetween' = refreshedSince
        /\ refreshedSince' = FALSE
        /\ UNCHANGED others

IdsNewTrialDocs ==
    \E idList \in HeldIdLists :
        /\ NewTrialDocsCall(idList, [i \in 1..Len(idList) |-> NewResult],
                            [i \in 1..Len(idList) |-> ArgsOf(idList[i].v)])
        /\ reserved' = [i \in DOMAIN reserved |-> reserved[i] - Uses(idList, i)]
        /\ UNCHANGED <<prevIds, lastIds, refreshedBetween, refreshedSince, others>>

\* the documents just built are inserted
IdsInsertTrialDocs ==
    /\ op = "newTrialDocs"
    /\ InsertTrialDocs(rval.items)
    /\ UNCHANGED <<caller, others>>

IdsRefresh ==
    /\ Refresh
    /\ refreshedSince' = (refreshedSince \/ RefreshedUnderKey)
    /\ UNCHANGED <<reserved, prevIds, lastIds, refreshedBetween, others>>

\* deleteAll() ends with a call of refresh()
IdsDeleteAll ==
    /\ DeleteAll
    /\ refreshedSince' = (refreshedSince \/ RefreshedUnderKey)
    /\ UNCHANGED <<reserved, prevIds, lastIds, refreshedBetween, others>>

IdsCountByStateSynced ==
    /\ CountByStateSynced(Num(JOB_STATE_NEW))
    /\ UNCHANGED <<caller, others>>

NextIds ==
    \/ IdsNewTrialIds
    \/ IdsNewTrialDocs
    \/ IdsInsertTrialDocs
    \/ IdsRefresh
    \/ IdsDeleteAll
    \/ IdsCountByStateSynced

SpecIds == Init /\ [][NextIds]_vars

----------------------------------------------------------------------------
(* refresh() and the counts as functions of the authoritative list.  The list
   is a public field and its records are the callers' own objects, so it is
   drawn here from the lists of complete documents of any state and any
   experiment key, which the store's own validation would not let in *)

ListsUpTo(S, n) == UNION {[1..k -> S] : k \in 0..n}

AnyDocs ==
    {MkDoc(0, NewResult, JOB_STATES[s], k) :
        s \in 1..Len(JOB_STATES), k \in {Null, Str("A"), Str("B")}}

\* a store built without a first refresh (new Trials(key, false)) whose list
\* holds up to MaxTrials such documents
InitView ==
    /\ expKey \in StoreKeys
    /\ ids = <<>>
    /\ dynamicTrials \in ListsUpTo(AnyDocs, MaxTrials)
    /\ trials = <<>>
    /\ op = "constructor" /\ arg = Arr(<<expKey, Bool(FALSE)>>)
    /\ err = NoError /\ rval = Undefined
    /\ CallerInit
    /\ OthersInit

NextView ==
    \/ DoRefresh
    \/ DoCountByStateSynced
    \/ DoCountByStateUnsynced

SpecView == InitView /\ [][NextView]_vars

----------------------------------------------------------------------------
(* bestTrial, argmin and argmax as functions of a refreshed store *)

ResultsToRank ==
    {[status |-> Str(STATUS_OK), loss |-> Num(0)],
     [status |-> Str(STATUS_OK), loss |-> Num(1)],
     [status |-> Str(STATUS_OK), accuracy |-> Num(1)],
     [status |-> Str(STATUS_OK), accuracy |-> Num(2)],
     [status |-> Str(STATUS_NEW)],
     [status |-> Str(STATUS_FAIL), loss |-> Num(0)]}

RankedDocs(key) == {MkDoc(i, r, JOB_STATE_DONE, key) : i \in DocIds, r \in ResultsToRank}

\* a store after the insertion of up to MaxView evaluated trials and refresh()
InitBest ==
    /\ expKey \in StoreKeys
    /\ ids = <<>>
    /\ dynamicTrials \in ListsUpTo(RankedDocs(expKey), MaxView)
    /\ trials = RefreshTrials(dynamicTrials, expKey)
    /\ op = "refresh" /\ arg = Arr(<<>>) /\ err = NoError /\ rval = Undefined
    /\ CallerInit
    /\ OthersInit

DoBestTrial == (\E compare \in {"default", "argmax"} : BestTrial(compare)) /\ UNCHANGED <<caller, others>>

DoArgmin == Argmin /\ UNCHANGED <<caller, others>>

DoArgmax == Argmax /\ UNCHANGED <<caller, others>>

DoLosses == Losses /\ UNCHANGED <<caller, others>>

DoStatuses == Statuses /\ UNCHANGED <<caller, others>>

NextBest ==
    \/ DoBestTrial
    \/ DoArgmin
    \/ DoArgmax
    \/ DoLosses
    \/ DoStatuses

SpecBest == InitBest /\ [][NextBest]_vars

----------------------------------------------------------------------------
(* Domain: the adapter of the objective function.  this.fn is given by how
   the promise of the objective function settles: fulfilled with a value, or
   rejected with an Error *)

\* NaN: typeof NaN is 'number'
NaN == [t |-> "number", nan |-> TRUE]

\* typeof rval === 'number' && !Number.isNaN(rval)
IsNumberNotNaN(x) == IsNum(x) /\ x # NaN

\* `${status}` of the values a status is drawn from
TemplateText(x) ==
    IF IsPrimitiveOrArray(x) /\ x.t = "string" THEN x.v
    ELSE IF x = Undefined THEN "undefined"
    ELSE IF x = Null THEN "null"
    ELSE "[object Object]"

\* STATUS_STRINGS.indexOf(status) >= 0
IsStatusString(status) ==
    /\ IsPrimitiveOrArray(status)
    /\ status.t = "string"
    /\ Includes(STATUS_STRINGS, status.v)

\* what const { status, loss, accuracy } = null throws
DestructureError == "TypeError: cannot destructure null"

\* EvaluateThrown without the check that an ok result has a loss or an accuracy
EvaluateThrownAnyOk(value) ==
    IF IsNumberNotNaN(value) THEN NoError
    ELSE IF value = Undefined THEN "Optimization function should return a loss value"
    ELSE IF value = Null THEN DestructureError
    ELSE IF ~IsStatusString(Get(value, "status"))
         THEN "invalid status " \o TemplateText(Get(value, "status"))
    ELSE NoError

\* evaluate(args) once this.fn is fulfilled with `value`: the Error it throws,
\* NoError when it returns
EvaluateThrown(value) ==
    IF IsNumberNotNaN(value) THEN NoError
    ELSE IF value = Undefined THEN "Optimization function should return a loss value"
    ELSE IF value = Null THEN DestructureError
    ELSE LET status   == Get(value, "status")
             loss     == Get(value, "loss")
             accuracy == Get(value, "accuracy")
         IN  IF ~IsStatusString(status) THEN "invalid status " \o TemplateText(status)
             ELSE IF status = Str(STATUS_OK) /\ loss = Undefined /\ accuracy = Undefined
                  THEN "invalid loss and accuracy"
             ELSE NoError

\* ... and the result it returns
EvaluateResult(value) ==
    IF IsNumberNotNaN(value)
    THEN [loss |-> value, status |-> Str(STATUS_OK)]
    ELSE value

\* evaluate(args): a rejection of this.fn passes through the await
Evaluate(args) ==
    /\ fn.settles # "never"
    /\ Called("evaluate", <<args>>)
    /\ IF fn.settles = "rejected" THEN Throws(fn.reason)
       ELSE IF EvaluateThrown(fn.value) # NoError THEN Throws(EvaluateThrown(fn.value))
       ELSE Returns(EvaluateResult(fn.value))
    /\ UNCHANGED fn

\* newResult()
NewResultCall ==
    /\ fn.settles # "never"
    /\ Called("newResult", <<>>)
    /\ Returns(NewResult)
    /\ UNCHANGED fn

\* the object with the given status, loss and accuracy, a property that is
\* undefined being left out
ResultOf(status, loss, accuracy) ==
    LET all == [status |-> status, loss |-> loss, accuracy |-> accuracy]
    IN  [k \in {f \in DOMAIN all : all[f] # Undefined} |-> all[k]]

\* what the objective function is fulfilled with: numbers, NaN, nothing,
\* null, other primitives, an array, and objects of every recognized status,
\* an unknown one, a null one and none, with and without loss and accuracy
ObjectiveValues ==
    {Num(0), Num(1), NaN, Undefined, Null, Str(STATUS_OK), Bool(TRUE), Arr(<<>>)}
    \cup {ResultOf(status, loss, accuracy) :
            status \in {Str(STATUS_STRINGS[i]) : i \in 1..Len(STATUS_STRINGS)}
                       \cup {Str("bogus"), Null, Undefined},
            loss \in {Undefined, Num(0), Null},
            accuracy \in {Undefined, Num(1)}}

ObjectiveOutcomes ==
    {[settles |-> "fulfilled", value |-> v] : v \in ObjectiveValues}
    \cup {[settles |-> "rejected", reason |-> "objective failed"]}

\* new Domain(fn, expr, params), beside a store that is not used
InitDomain ==
    /\ expKey = Null
    /\ ids = <<>>
    /\ dynamicTrials = <<>>
    /\ trials = <<>>
    /\ op = "Domain" /\ arg = Arr(<<>>) /\ err = NoError /\ rval = Undefined
    /\ CallerInit
    /\ fn \in ObjectiveOutcomes
    /\ rngs = <<>>
    /\ calls = <<>>

DoEvaluate ==
    (\E i \in DocIds : Evaluate(ArgsOf(i))) /\ UNCHANGED <<store, caller, rngs, calls>>

DoNewResult == NewResultCall /\ UNCHANGED <<store, caller, rngs, calls>>

NextDomain ==
    \/ DoEvaluate
    \/ DoNewResult

SpecDomain == InitDomain /\ [][NextDomain]_vars

----------------------------------------------------------------------------
(* BaseSpace: the evaluator of search-space expressions.  A RandomState is an
   object of the heap rngs, known by its place there; its state is the number
   of draws made from it, counted from the state it was constructed in.  An
   evaluation is a function of the expression, the options and the heap, and
   gives a value or an Error together with the heap and the invocations it
   leaves *)

\* bound: the longest array and the most keys of an object in the expressions
MaxWidth == 2

\* a reference to the RandomState at place i of the heap
Ref(i) == [t |-> "RandomState", ref |-> i]

\* x === undefined || x === null
IsAbsent(x) == IsPrimitiveOrArray(x) /\ x.t \in {"undefined", "null"}

\* {}
EmptyObject == [k \in {} |-> Undefined]

\* { ...o, [k]: v }
WithKey(o, k, v) == [f \in DOMAIN o \cup {k} |-> IF f = k THEN v ELSE o[f]]

\* the property names of the model in the order the objects of the model
\* were given them, which is the order of Object.keys
KeyNames == <<"name", "a", "b", "c", "d">>

ObjectKeysInOrder(o) == SelectSeq(KeyNames, LAMBDA k : k \in DOMAIN o)

\* typeof this[name] === 'function': the evaluator has one capability, sample
IsFunctionOnEvaluator(name) == name = Str("sample")

\* what destructuring { rng: rState } from no second argument throws
OptionsError == "TypeError: cannot destructure undefined"

\* the capability sample(params, rng): a draw from rng, which moves its state
Sample(params, rng, st) ==
    [value |-> Num(st.rngs[rng.ref]),
     err   |-> NoError,
     st    |-> [st EXCEPT !.rngs[rng.ref] = @ + 1,
                          !.calls = Append(@, [params |-> params, rng |-> rng,
                                               state |-> st.rngs[rng.ref]])]]

RECURSIVE Eval(_, _, _)

RECURSIVE EvalItems(_, _, _, _, _)

RECURSIVE EvalItemsUnthreaded(_, _, _, _, _)

RECURSIVE EvalKeys(_, _, _, _, _)

\* EvalItems passing no random state on to the items
EvalItemsUnthreaded(items, i, rng, st, done) ==
    IF i > Len(items) THEN [value |-> Arr(done), err |-> NoError, st |-> st]
    ELSE LET r == Eval(items[i], [other |-> rng], st)
         IN  IF r.err # NoError THEN r
             ELSE EvalItemsUnthreaded(items, i + 1, rng, r.st, Append(done, r.value))

\* expr.map(item => this.eval(item, { rng })) from item i on, `done` holding
\* the values of the items before
EvalItems(items, i, rng, st, done) ==
    IF i > Len(items) THEN [value |-> Arr(done), err |-> NoError, st |-> st]
    ELSE LET r == Eval(items[i], [rng |-> rng], st)
         IN  IF r.err # NoError THEN r
             ELSE EvalItems(items, i + 1, rng, r.st, Append(done, r.value))

\* Object.keys(expr).reduce((r, key) => ({ ...r, [key]: this.eval(expr[key],
\* { rng }) }), {}) over the keys left, `done` being the object built so far
EvalKeys(expr, keys, rng, st, done) ==
    IF keys = <<>> THEN [value |-> done, err |-> NoError, st |-> st]
    ELSE LET r == Eval(expr[Head(keys)], [rng |-> rng], st)
         IN  IF r.err # NoError THEN r
             ELSE EvalKeys(expr, Tail(keys), rng, r.st, WithKey(done, Head(keys), r.value))

\* eval(expr, opts) on the heap st.rngs; a RandomState constructed without a
\* seed starts in state st.seed
Eval(expr, opts, st) ==
    IF IsAbsent(opts) THEN [value |-> Undefined, err |-> OptionsError, st |-> st]
    ELSE IF IsAbsent(expr) THEN [value |-> expr, err |-> NoError, st |-> st]
    ELSE LET rState == Get(opts, "rng")
             rng    == IF rState = Undefined THEN Ref(Len(st.rngs) + 1) ELSE rState
             st1    == IF rState = Undefined
                       THEN [st EXCEPT !.rngs = Append(@, st.seed)]
                       ELSE st
             name   == Get(expr, "name")
         IN  IF IsFunctionOnEvaluator(name) THEN Sample(Without(expr, "name"), rng, st1)
             ELSE IF IsArray(expr) THEN EvalItems(expr.items, 1, rng, st1, <<>>)
             ELSE IF ~IsPrimitiveOrArray(expr)
                  THEN EvalKeys(expr, ObjectKeysInOrder(expr), rng, st1, EmptyObject)
             ELSE [value |-> expr, err |-> NoError, st |-> st1]

\* a top-level call of eval
EvalCall(expr, opts, seed) ==
    LET r == Eval(expr, opts, [rngs |-> rngs, calls |-> <<>>, seed |-> seed])
    IN  /\ Called("eval", <<expr, opts>>)
        /\ IF r.err = NoError THEN Returns(r.value) ELSE Throws(r.err)
        /\ rngs' = r.st.rngs
        /\ calls' = r.st.calls
        /\ UNCHANGED fn

\* a call of the capability with parameter p
SampleNode(p) == [name |-> Str("sample"), a |-> Num(p)]

\* the leaves of the expressions: a scalar, null, undefined, capability calls
Leaves == {Num(1), Null, Undefined, SampleNode(1), SampleNode(2)}

\* the object whose keys are the names after "name", as many as values
ObjectOf(values) ==
    [k \in {KeyNames[i + 1] : i \in 1..Len(values)} |->
        values[CHOOSE i \in 1..Len(values) : KeyNames[i + 1] = k]]

\* arrays and objects of up to MaxWidth leaves, and objects whose name is
\* not a capability
Shallow ==
    {Arr(l) : l \in ListsUpTo(Leaves, MaxWidth)}
    \cup {ObjectOf(l) : l \in ListsUpTo(Leaves, MaxWidth) \ {<<>>}}
    \cup {[name |-> Str("other"), a |-> x] : x \in Leaves}
    \cup {[name |-> Num(1)]}

\* arrays and objects holding one of those and a leaf
Nested ==
    UNION {{Arr(<<x, y>>), Arr(<<y, x>>), ObjectOf(<<x, y>>), ObjectOf(<<y, x>>)} :
              x \in Shallow, y \in Leaves}

Expressions == Leaves \cup Shallow \cup Nested

\* the second argument of eval: none, an object with no rng, { rng } with
\* the caller's RandomState
Options == {Undefined, [verbose |-> Bool(FALSE)], [rng |-> Ref(1)]}

\* the states a RandomState may be constructed in
Seeds == {0, 1}

\* new BaseSpace(), beside a store that is not used; the caller has
\* constructed one RandomState
InitEval ==
    /\ expKey = Null
    /\ ids = <<>>
    /\ dynamicTrials = <<>>
    /\ trials = <<>>
    /\ op = "BaseSpace" /\ arg = Arr(<<>>) /\ err = NoError /\ rval = Undefined
    /\ CallerInit
    /\ fn = [settles |-> "never"]
    /\ rngs \in {<<seed>> : seed \in Seeds}
    /\ calls = <<>>

\* one top-level call of eval on the evaluator just constructed
DoEval ==
    /\ op = "BaseSpace"
    /\ \E expr \in Expressions, opts \in Options, seed \in Seeds : EvalCall(expr, opts, seed)
    /\ UNCHANGED <<store, caller>>

NextEval == DoEval

SpecEval == InitEval /\ [][NextEval]_vars

----------------------------------------------------------------------------
(* Validation of inserted documents *)

\* the first of id, result, args, state, book_time, refresh_time that doc
\* lacks, "none" when it has them all
FirstAbsent(doc) ==
    IF Get(doc, "id") = Undefined THEN "id"
    ELSE IF Get(doc, "result") = Undefined THEN "result"
    ELSE IF Get(doc, "args") = Undefined THEN "args"
    ELSE IF Get(doc, "state") = Undefined THEN "state"
    ELSE IF Get(doc, "book_time") = Undefined THEN "book_time"
    ELSE IF Get(doc, "refresh_time") = Undefined THEN "refresh_time"
    ELSE "none"

\* what inserting doc is stated to end with: an error naming the first absent
\* field, an error for a foreign expKey, acceptance
StatedOutcome(doc, key) ==
    IF FirstAbsent(doc) # "none" THEN "trial missing key " \o FirstAbsent(doc)
    ELSE IF Get(doc, "expKey") # key THEN "wrong trial expKey"
    ELSE NoError

\* the same, but a document with no key at all is refused as not an object
AmendedOutcome(doc, key) ==
    IF ObjectKeys(doc) = {} THEN "trial should be an object"
    ELSE StatedOutcome(doc, key)

\* the outcome of a batch: that of its first document that is not accepted
BatchOutcomeIs(e, docs, Outcome(_, _), key) ==
    \/ e = NoError /\ \A i \in 1..Len(docs) : Outcome(docs[i], key) = NoError
    \/ \E i \in 1..Len(docs) :
          /\ e # NoError
          /\ Outcome(docs[i], key) = e
          /\ \A j \in 1..(i - 1) : Outcome(docs[j], key) = NoError

InsertOutcomeIs(Outcome(_, _)) ==
    /\ op = "insertTrialDoc" =>
          LET doc == arg.items[1]
          IN  /\ err = Outcome(doc, expKey)
              /\ err = NoError =>
                    /\ rval = Get(doc, "id")
                    /\ dynamicTrials # <<>>
                    /\ dynamicTrials[Len(dynamicTrials)] = doc
    /\ op = "insertTrialDocs" =>
          LET docs == arg.items[1].items
          IN  /\ BatchOutcomeIs(err, docs, Outcome, expKey)
              /\ err = NoError =>
                    /\ rval = Arr([i \in 1..Len(docs) |-> Get(docs[i], "id")])
                    /\ Len(dynamicTrials) >= Len(docs)
                    /\ SubSeq(dynamicTrials, Len(dynamicTrials) - Len(docs) + 1,
                              Len(dynamicTrials)) = docs

\* C1 as stated: insertTrialDoc and insertTrialDocs refuse every document that
\* lacks one of the six required fields with an error naming the first absent
\* field, refuse a document of another experiment key, and accept the rest
C1_AsStated == InsertOutcomeIs(StatedOutcome)

\* C1 as amended: the same, except that a document with no key at all is
\* refused with "trial should be an object", which names no field
C1_InsertValidates == InsertOutcomeIs(AmendedOutcome)

\* a document lacking result and args was refused, naming result
C1_Witness ==
    /\ op = "insertTrialDoc"
    /\ Get(arg.items[1], "id") # Undefined
    /\ Get(arg.items[1], "result") = Undefined
    /\ Get(arg.items[1], "args") = Undefined
    /\ err = "trial missing key result"

\* C2: an insertTrialDoc or insertTrialDocs call that throws leaves the
\* authoritative list, the derived view and the id counter as they were
C2_FailedInsertChangesNothing ==
    [][(op' \in {"insertTrialDoc", "insertTrialDocs"} /\ err' # NoError)
          => (dynamicTrials' = dynamicTrials /\ trials' = trials /\ ids' = ids)]_vars

\* a batch of a valid document followed by a malformed one was refused by a
\* store that already held a record
C2_Witness ==
    /\ op = "insertTrialDocs"
    /\ err # NoError
    /\ Len(arg.items[1].items) = 2
    /\ AmendedOutcome(arg.items[1].items[1], expKey) = NoError
    /\ AmendedOutcome(arg.items[1].items[2], expKey) # NoError
    /\ Len(dynamicTrials) = 1

\* C3: every record of the authoritative list has the six required fields
\* and the experiment key of the store
C3_RecordsWellFormed ==
    \A i \in 1..Len(dynamicTrials) :
        /\ \A k \in {"id", "result", "args", "state", "book_time", "refresh_time"} :
              Get(dynamicTrials[i], k) # Undefined
        /\ Get(dynamicTrials[i], "expKey") = expKey

\* a store holding a record has just refused a document of another experiment
C3_Witness ==
    /\ dynamicTrials # <<>>
    /\ op = "insertTrialDoc"
    /\ err = "wrong trial expKey"
    /\ FirstAbsent(arg.items[1]) = "none"

\* C7: insertTrialDoc, insertTrialDocs, newTrialIds and newTrialDocs leave
\* the derived view as it was
C7_ViewOnlyOnRefresh ==
    [][op' \in {"insertTrialDoc", "insertTrialDocs", "newTrialIds", "newTrialDocs"}
          => trials' = trials]_vars

\* a record that refresh() would show was inserted and the view does not
\* hold it
C7_Witness ==
    /\ op = "insertTrialDoc"
    /\ err = NoError
    /\ Get(arg.items[1], "state") # Num(JOB_STATE_ERROR)
    /\ Len(trials) < Len(dynamicTrials)
    /\ \A i \in 1..Len(trials) : trials[i] # arg.items[1]

----------------------------------------------------------------------------
(* Trial ids *)

\* C4: when every inserted document carries an id that newTrialIds returned,
\* each returned id being put in one document at most, no two records of the
\* authoritative list have the same id
C4_IdsUnique ==
    \A i \in 1..Len(dynamicTrials) : \A j \in 1..Len(dynamicTrials) :
        i # j => Get(dynamicTrials[i], "id") # Get(dynamicTrials[j], "id")

\* C5: two successive newTrialIds calls with no refresh() under a non-null key
\* between them return contiguous increasing ranges of the lengths asked for,
\* the second starting at the last value of the first plus one
C5_SuccessiveRangesContiguous ==
    /\ op = "newTrialIds" =>
          /\ Len(lastIds.items) = arg.items[1].v
          /\ lastIds = rval
    /\ lastIds # Undefined =>
          \A k \in 1..(Len(lastIds.items) - 1) :
              lastIds.items[k + 1].v = lastIds.items[k].v + 1
    /\ (prevIds # Undefined /\ lastIds # Undefined /\ ~refreshedBetween) =>
          LET first  == prevIds.items
              second == lastIds.items
          IN  /\ first # <<>> /\ second # <<>> => second[1].v = first[Len(first)].v + 1
              /\ \A a \in 1..Len(first) : \A b \in 1..Len(second) : first[a] # second[b]

\* two non-empty ranges were handed out with an insert of the first id, a
\* refresh under the null key and a count between the calls
C5_Witness ==
    /\ op = "newTrialIds"
    /\ expKey = Null
    /\ prevIds # Undefined /\ prevIds.items # <<>>
    /\ lastIds.items # <<>>
    /\ ~refreshedBetween
    /\ dynamicTrials # <<>>
    /\ trials # <<>>

----------------------------------------------------------------------------
(* Counting by state *)

StatesOf(a) == IF IsArray(a) THEN {a.items[i] : i \in 1..Len(a.items)} ELSE {a}

\* C10: countByStateUnsynced counts the records of the authoritative list whose
\* state is in the given set and, under a non-null key, whose expKey is the
\* store's; countByStateSynced counts the records of the derived view whose
\* state is in the set; one state and the one-element list of it count alike
C10_CountByState ==
    /\ op = "countByStateUnsynced" =>
          rval = Num(Cardinality({i \in 1..Len(dynamicTrials) :
                        /\ Get(dynamicTrials[i], "state") \in StatesOf(arg.items[1])
                        /\ expKey # Null => Get(dynamicTrials[i], "expKey") = expKey}))
    /\ op = "countByStateSynced" =>
          rval = Num(Cardinality({i \in 1..Len(trials) :
                        Get(trials[i], "state") \in StatesOf(arg.items[1])}))

----------------------------------------------------------------------------
(* The derived view *)

\* the places of the authoritative list that the view is stated to show
Shown == {i \in 1..Len(dynamicTrials) :
             /\ Get(dynamicTrials[i], "state") # Num(JOB_STATE_ERROR)
             /\ expKey # Null => Get(dynamicTrials[i], "expKey") = expKey}

\* C6: right after refresh() the derived view is the subsequence, in order, of
\* the records of the authoritative list whose state is not ERROR and, under
\* a non-null key, whose expKey is the store's
C6_RefreshFilters ==
    op = "refresh" =>
        /\ Len(trials) = Cardinality(Shown)
        /\ \A i \in Shown : trials[Cardinality({j \in Shown : j <= i})] = dynamicTrials[i]
        /\ \A k \in 1..Len(trials) :
              /\ Get(trials[k], "state") # Num(JOB_STATE_ERROR)
              /\ expKey # Null => Get(trials[k], "expKey") = expKey

\* a store of key "A" holding a trial of "A" and a trial of "B", neither in
\* state ERROR, shows one of them after refresh()
C6_Witness ==
    /\ op = "refresh"
    /\ expKey = Str("A")
    /\ Len(dynamicTrials) = 2
    /\ \E i \in 1..2 : /\ Get(dynamicTrials[i], "expKey") = Str("B")
                       /\ Get(dynamicTrials[i], "state") # Num(JOB_STATE_ERROR)
    /\ \E i \in 1..2 : /\ Get(dynamicTrials[i], "expKey") = Str("A")
                       /\ Get(dynamicTrials[i], "state") # Num(JOB_STATE_ERROR)
    /\ Len(trials) = 1

----------------------------------------------------------------------------
(* The best trial *)

StatusOf(trial) == Get(Get(trial, "result"), "status")

LossOf(trial) == Get(Get(trial, "result"), "loss")

\* C8: bestTrial returns undefined or a record of status ok, and argmin and
\* argmax are undefined when the view holds no trial of status ok
C8_BestIsOk ==
    /\ op = "bestTrial" => (rval = Undefined \/ StatusOf(rval) = Str(STATUS_OK))
    /\ (op \in {"argmin", "argmax"}
        /\ \A i \in 1..Len(trials) : StatusOf(trials[i]) # Str(STATUS_OK))
          => rval = Undefined

\* C9: over a view of trials of status ok that all carry a loss, argmin is the
\* args of the earliest trial whose loss no other trial's loss is below
C9_ArgminIsMinimalLoss ==
    (/\ op = "argmin"
     /\ trials # <<>>
     /\ \A i \in 1..Len(trials) :
           StatusOf(trials[i]) = Str(STATUS_OK) /\ IsNum(LossOf(trials[i])))
      => \E i \in 1..Len(trials) :
            /\ rval = Get(trials[i], "args")
            /\ \A j \in 1..Len(trials) : LossOf(trials[i]).v <= LossOf(trials[j]).v
            /\ \A j \in 1..(i - 1) : LossOf(trials[j]).v > LossOf(trials[i]).v

\* the minimal loss is met twice, by trials of different args, after a trial
\* of a greater loss
C9_Witness ==
    /\ op = "argmin"
    /\ Len(trials) = 3
    /\ \A i \in 1..3 : StatusOf(trials[i]) = Str(STATUS_OK) /\ IsNum(LossOf(trials[i]))
    /\ LossOf(trials[1]).v > LossOf(trials[2]).v
    /\ LossOf(trials[2]) = LossOf(trials[3])
    /\ Get(trials[2], "args") # Get(trials[3], "args")
    /\ rval = Get(trials[2], "args")

\* C11: losses() returns one entry for each record of the view, in the order
\* of the view: the loss of its result when the result has one, 0 included,
\* and its accuracy otherwise; statuses() returns the status of each result
\* in the same order
C11_LossesAndStatuses ==
    /\ op = "losses" =>
          /\ IsArray(rval)
          /\ Len(rval.items) = Len(trials)
          /\ \A i \in 1..Len(trials) :
                rval.items[i] = IF LossOf(trials[i]) # Undefined
                                THEN LossOf(trials[i])
                                ELSE Get(Get(trials[i], "result"), "accuracy")
    /\ op = "statuses" =>
          /\ IsArray(rval)
          /\ Len(rval.items) = Len(trials)
          /\ \A i \in 1..Len(trials) : rval.items[i] = StatusOf(trials[i])

----------------------------------------------------------------------------
(* The results of Domain.evaluate *)

\* C12: evaluate throws the invalid-return Error when the objective function
\* gives undefined or null; otherwise, for a value that is no number, the
\* invalid-status Error when its status is not one of the five; otherwise the
\* incomplete-result Error when the status is ok and loss and accuracy are
\* both absent; a rejection of the objective function is thrown as it is; a
\* call that throws returns nothing
C12_EvaluateErrors ==
    /\ (op = "evaluate" /\ fn.settles = "rejected") => err = fn.reason
    /\ (op = "evaluate" /\ fn.settles = "fulfilled") =>
          IF fn.value \in {Undefined, Null}
          THEN err = "Optimization function should return a loss value"
          ELSE IF IsNum(fn.value) THEN TRUE
          ELSE IF ~IsStatusString(Get(fn.value, "status"))
          THEN err = "invalid status " \o TemplateText(Get(fn.value, "status"))
          ELSE IF /\ Get(fn.value, "status") = Str(STATUS_OK)
                  /\ Get(fn.value, "loss") = Undefined
                  /\ Get(fn.value, "accuracy") = Undefined
          THEN err = "invalid loss and accuracy"
          ELSE err = NoError
    /\ (op = "evaluate" /\ err # NoError) => rval = Undefined

\* C13: a result that evaluate returns has one of the five statuses and, when
\* its status is ok, a loss or an accuracy; an objective function giving the
\* number v makes evaluate return { loss: v, status: ok }; a value that is no
\* number and passes the checks is returned as it is
C13_ResultInvariant ==
    /\ (op = "evaluate" /\ err = NoError) =>
          /\ fn.settles = "fulfilled"
          /\ IsStatusString(Get(rval, "status"))
          /\ Get(rval, "status") = Str(STATUS_OK) =>
                (Get(rval, "loss") # Undefined \/ Get(rval, "accuracy") # Undefined)
          /\ ~IsNum(fn.value) => rval = fn.value
    /\ (op = "evaluate" /\ fn.settles = "fulfilled" /\ IsNum(fn.value) /\ fn.value # NaN) =>
          /\ err = NoError
          /\ rval = [loss |-> fn.value, status |-> Str(STATUS_OK)]

\* an ok result carrying an accuracy and no loss was returned as it is
C13_Witness ==
    /\ op = "evaluate"
    /\ err = NoError
    /\ fn.settles = "fulfilled"
    /\ ~IsNum(fn.value)
    /\ Get(fn.value, "status") = Str(STATUS_OK)
    /\ Get(fn.value, "loss") = Undefined
    /\ Get(fn.value, "accuracy") = Num(1)
    /\ rval = fn.value

----------------------------------------------------------------------------
(* The evaluation of expressions *)

RECURSIVE SampleNodes(_)

RECURSIVE Concat(_)

Concat(lists) == IF lists = <<>> THEN <<>> ELSE Head(lists) \o Concat(Tail(lists))

\* the parameters of the capability calls of an expression, from left to
\* right: in the order of the items of an array and of the keys of an object
SampleNodes(expr) ==
    IF IsAbsent(expr) THEN <<>>
    ELSE IF IsFunctionOnEvaluator(Get(expr, "name")) THEN <<Without(expr, "name")>>
    ELSE IF IsArray(expr)
         THEN Concat([i \in 1..Len(expr.items) |-> SampleNodes(expr.items[i])])
    ELSE IF ~IsPrimitiveOrArray(expr)
         THEN Concat([i \in 1..Len(ObjectKeysInOrder(expr)) |->
                         SampleNodes(expr[ObjectKeysInOrder(expr)[i]])])
    ELSE <<>>

\* the second argument of the call carries no RandomState
NoRngGiven(opts) == IsAbsent(opts) \/ Get(opts, "rng") = Undefined

\* C14: for an expression of scalars, null, undefined, arrays and objects in
\* which no object's name is a capability of the evaluator, eval returns a
\* value equal to the expression (same length and order of every array, same
\* keys of every object, same leaves), invokes no capability and leaves the
\* state of every RandomState as it was
C14_PlainTreeUnchanged ==
    [][(op' = "eval" /\ SampleNodes(arg'.items[1]) = <<>>)
          => /\ err' = NoError
             /\ rval' = arg'.items[1]
             /\ calls' = <<>>
             /\ \A i \in 1..Len(rngs) : rngs'[i] = rngs[i]]_vars

RECURSIVE Expected(_, _)

\* the expression with each capability call replaced by the draw it gets
\* when the draws are handed out from left to right, starting at `first`
Expected(expr, first) ==
    IF IsAbsent(expr) THEN expr
    ELSE IF IsFunctionOnEvaluator(Get(expr, "name")) THEN Num(first)
    ELSE IF IsArray(expr)
         THEN Arr([i \in 1..Len(expr.items) |->
                      Expected(expr.items[i],
                               first + Len(SampleNodes(Arr(SubSeq(expr.items, 1, i - 1)))))])
    ELSE IF ~IsPrimitiveOrArray(expr)
         THEN [k \in DOMAIN expr |->
                  Expected(expr[k],
                           first + Len(SampleNodes(
                               Arr([i \in 1..(CHOOSE n \in 0..Len(ObjectKeysInOrder(expr)) :
                                                 ObjectKeysInOrder(expr)[n + 1] = k) |->
                                       expr[ObjectKeysInOrder(expr)[i]]]))))]
    ELSE expr

\* C15: in one top-level call of eval every invocation of a capability gets
\* the same RandomState, the one given or else the one constructed at the
\* top of the call and no other; the capabilities are invoked from left to
\* right (items in order, keys in order), each drawing the state the one
\* before left, so that the value returned is a function of the expression
\* and of the state the RandomState started in
C15_OneStateLeftToRight ==
    [][op' = "eval" =>
          LET expr  == arg'.items[1]
              given == ~NoRngGiven(arg'.items[2])
              used  == IF given THEN Get(arg'.items[2], "rng") ELSE Ref(Len(rngs) + 1)
              first == IF given THEN rngs[used.ref] ELSE rngs'[Len(rngs')] - Len(calls')
          IN  /\ \A k \in 1..Len(calls') : calls'[k].rng = used
              /\ Len(rngs') = Len(rngs) + (IF given \/ err' # NoError \/ IsAbsent(expr)
                                            THEN 0 ELSE 1)
              /\ \A i \in 1..Len(rngs) :
                    rngs'[i] = rngs[i] + (IF used = Ref(i) THEN Len(calls') ELSE 0)
              /\ err' = NoError =>
                    /\ Len(calls') = Len(SampleNodes(expr))
                    /\ \A k \in 1..Len(calls') :
                          /\ calls'[k].params = SampleNodes(expr)[k]
                          /\ calls'[k].state = first + k - 1
                    /\ rval' = Expected(expr, first)]_vars

\* three capabilities at two depths, with different parameters, were invoked
\* with a RandomState that eval constructed
C15_Witness ==
    /\ op = "eval"
    /\ err = NoError
    /\ NoRngGiven(arg.items[2])
    /\ Len(calls) = 3
    /\ calls[1].params # calls[2].params
    /\ Len(rngs) = 2
    /\ \A k \in 1..3 : calls[k].rng = Ref(2)
    /\ IsArray(rval) /\ IsArray(rval.items[1])

\* C16: eval of null or undefined returns it for every second argument, none
\* included, throws nothing, constructs no RandomState and draws from none;
\* eval of another expression with no RandomState given does not throw and
\* uses a RandomState it constructs
C16_AbsentAndDefault ==
    [][op' = "eval" =>
          /\ IsAbsent(arg'.items[1]) =>
                /\ err' = NoError
                /\ rval' = arg'.items[1]
                /\ rngs' = rngs
                /\ calls' = <<>>
          /\ (~IsAbsent(arg'.items[1]) /\ NoRngGiven(arg'.items[2])) =>
                /\ err' = NoError
                /\ Len(rngs') = Len(rngs) + 1
                /\ \A i \in 1..Len(rngs) : rngs'[i] = rngs[i]
                /\ \A k \in 1..Len(calls') : calls'[k].rng = Ref(Len(rngs'))]_vars

----------------------------------------------------------------------------
(* The authoritative list, the derived view and the id counter *)

\* C17: newTrialDocs(ids, results, args) returns one document for each id, in
\* order, of state NEW, with the id, the result and the args of its place,
\* the experiment key of the store and null times, and leaves the list, the
\* view and the id counter as they were; when the id, the result and the
\* args of every place are defined, insertTrialDocs of the documents
\* returned succeeds and returns the ids in order
C17_BuiltDocsInsert ==
    [][/\ op' = "newTrialDocs" =>
             LET idList == arg'.items[1].items
             IN  /\ err' = NoError
                 /\ IsArray(rval')
                 /\ Len(rval'.items) = Len(idList)
                 /\ \A i \in 1..Len(idList) :
                       rval'.items[i] =
                           [state        |-> Num(JOB_STATE_NEW),
                            id           |-> idList[i],
                            result       |-> At(arg'.items[2].items, i),
                            args         |-> At(arg'.items[3].items, i),
                            expKey       |-> expKey,
                            book_time    |-> Null,
                            refresh_time |-> Null]
                 /\ UNCHANGED <<expKey, ids, dynamicTrials, trials>>
       /\ (/\ op = "newTrialDocs"
           /\ op' = "insertTrialDocs"
           /\ arg'.items[1] = rval
           /\ \A i \in 1..Len(arg.items[1].items) :
                 /\ arg.items[1].items[i] # Undefined
                 /\ At(arg.items[2].items, i) # Undefined
                 /\ At(arg.items[3].items, i) # Undefined)
             => /\ err' = NoError
                /\ rval' = arg.items[1]]_vars

\* the two documents built for the ids 0 and 1 in a store of key "A" were
\* inserted, and the ids returned
C17_Witness ==
    /\ op = "insertTrialDocs"
    /\ err = NoError
    /\ expKey = Str("A")
    /\ rval = Arr(<<Num(0), Num(1)>>)
    /\ Len(dynamicTrials) = 2
    /\ Get(dynamicTrials[2], "state") = Num(JOB_STATE_NEW)

\* C18: a call other than deleteAll leaves the records the authoritative
\* list held at its head, in order and with their fields as they were; an
\* insert that succeeds puts the documents given, in the order given, after
\* them; a call that is neither an insert nor deleteAll leaves the list as it
\* was; deleteAll empties the list
C18_AppendOnly ==
    [][/\ op' # "deleteAll" =>
             /\ Len(dynamicTrials') >= Len(dynamicTrials)
             /\ SubSeq(dynamicTrials', 1, Len(dynamicTrials)) = dynamicTrials
       /\ (op' = "insertTrialDoc" /\ err' = NoError) =>
             dynamicTrials' = dynamicTrials \o <<arg'.items[1]>>
       /\ (op' = "insertTrialDocs" /\ err' = NoError) =>
             dynamicTrials' = dynamicTrials \o arg'.items[1].items
       /\ op' \notin {"insertTrialDoc", "insertTrialDocs", "deleteAll"} =>
             dynamicTrials' = dynamicTrials
       /\ op' = "deleteAll" => dynamicTrials' = <<>>]_vars

\* a batch of one document was put after a different record held before
C18_Witness ==
    /\ op = "insertTrialDocs"
    /\ err = NoError
    /\ Len(arg.items[1].items) = 1
    /\ Len(dynamicTrials) = 2
    /\ dynamicTrials[2] = arg.items[1].items[1]
    /\ dynamicTrials[1] # dynamicTrials[2]

\* C19: refresh() leaves the authoritative list as it was; it empties the id
\* counter when the key of the store is not null, so that the next
\* newTrialIds starts at 0, and leaves the counter as it was when the key is
\* null; the refresh() of deleteAll does the same to the counter, and the
\* constructor leaves an empty list and an empty counter
C19_RefreshFrame ==
    /\ op = "constructor" => (ids = <<>> /\ dynamicTrials = <<>>)
    /\ [][/\ op' = "refresh" => dynamicTrials' = dynamicTrials
          /\ op' \in {"refresh", "deleteAll"} =>
                ids' = IF expKey # Null THEN <<>> ELSE ids
          /\ (/\ op \in {"refresh", "deleteAll"}
              /\ expKey # Null
              /\ op' = "newTrialIds"
              /\ arg'.items[1] # Num(0))
                => rval'.items[1] = Num(0)]_vars

\* refresh() under the null key has kept a counter that is not empty, beside
\* a list that is not empty
C19_Witness ==
    /\ op = "refresh"
    /\ expKey = Null
    /\ ids # <<>>
    /\ dynamicTrials # <<>>

\* s is t with some of its elements left out
IsSubsequence(s, t) ==
    \E f \in [1..Len(s) -> 1..Len(t)] :
        /\ \A i \in 1..Len(s) : t[f[i]] = s[i]
        /\ \A i \in 1..Len(s) : \A j \in 1..Len(s) : i < j => f[i] < f[j]

\* C20: the derived view is the authoritative list with some of its records
\* left out, so it is never longer than the list; after deleteAll the list
\* and the view are both empty
C20_ViewWithinList ==
    /\ IsSubsequence(trials, dynamicTrials)
    /\ Len(trials) <= Len(dynamicTrials)
    /\ op = "deleteAll" => (dynamicTrials = <<>> /\ trials = <<>>)

\* the view shows the second of two different records and not the first
C20_Witness ==
    /\ Len(dynamicTrials) = 2
    /\ Len(trials) = 1
    /\ trials[1] = dynamicTrials[2]
    /\ dynamicTrials[1] # dynamicTrials[2]

====
